---- MODULE Spec2Model ----
(***************************************************************************)
(* Model of victoria's command dispatcher and configuration resolution:    *)
(* config.load, config.load_plugin_config, Config.get_storage,             *)
(* Config.get_encryption, encryption.make_provider and                     *)
(* VictoriaCLI.get_command / main.                                         *)
(*                                                                         *)
(* Python values are modelled as follows.  A dict is a TLA+ function, the  *)
(* empty dict is the function with empty domain.  An optional value is a record   *)
(* [isNone, v].  A str that the code splits is a sequence of characters.   *)
(* The result of a call is a record [ret, val, exc, ...] where ret is      *)
(* "value", "None" or "raise".                                             *)
(***************************************************************************)
EXTENDS Integers, Sequences, FiniteSets, TLC

VARIABLES
    pc,                  \* position of the process
    plugins,             \* VictoriaCLI.plugins: plugin name -> config_schema
    ctx_obj,             \* ctx.obj: the Config returned by load, or None
    load_err,            \* which except-branch of load() ran ("" if none)
    logging_initialized, \* logging.config.dictConfig has been applied
    stdout,              \* sequence of messages print()ed
    out,                 \* effects and result of the last load_plugin_config
    returned,            \* what get_command returned: "unset", "cmd", "None"
    context_settings,    \* plgn.cli.context_settings["obj"], optional
    exit_status,         \* -1 while running, else the exit status
    enc                  \* effects and result of the last encryption call

vars == <<pc, plugins, ctx_obj, load_err, logging_initialized, stdout, out,
          returned, context_settings, exit_status, enc>>

----------------------------------------------------------------------------
(* Bounds *)

MaxFieldValues == 3

----------------------------------------------------------------------------
(* Python values *)

EmptyDict == [x \in {} |-> x]

NoneOf(dflt) == [isNone |-> TRUE, v |-> dflt]
Some(x) == [isNone |-> FALSE, v |-> x]

\* Field values of a plugin configuration document: ints and strs.
FieldValues == {[type |-> "int", n |-> i] : i \in 1..(MaxFieldValues - 1)}
               \cup {[type |-> "str", n |-> 0]}

\* A plugin's raw configuration mapping: {} or {k: value}.
RawDocs == {EmptyDict} \cup {[k |-> fv] : fv \in FieldValues}

\* bool(x) of a dict
Truthy(d) == DOMAIN d # {}

----------------------------------------------------------------------------
(* Override URIs: str.split("://") followed by unpacking into two names *)

Sep == <<":", "/", "/">>
S3 == <<"s", "3">>
Ftp == <<"f", "t", "p">>
FooPath == <<"f">>

OverrideURIs == { S3 \o Sep \o FooPath,
                  Ftp \o Sep \o FooPath,
                  FooPath,
                  S3 \o Sep \o FooPath \o Sep \o FooPath }

StartsWith(s, p) == Len(s) >= Len(p) /\ SubSeq(s, 1, Len(p)) = p

RECURSIVE SplitFrom(_, _)
SplitFrom(s, cur) ==
    IF s = <<>> THEN <<cur>>
    ELSE IF StartsWith(s, Sep)
         THEN <<cur>> \o SplitFrom(SubSeq(s, Len(Sep) + 1, Len(s)), <<>>)
         ELSE SplitFrom(Tail(s), Append(cur, Head(s)))

\* override_loc.split("://")
Split(s) == SplitFrom(s, <<>>)

\* provider_type, path = tuple(override_loc.split("://")), read leniently:
\* a string without separator is taken as a provider name with empty path.
SplitUnpack_Partition(override_loc) ==
    LET parts == Split(override_loc)
    IN  IF Len(parts) = 1
        THEN [ok |-> TRUE, provider_type |-> parts[1], path |-> <<>>]
        ELSE IF Len(parts) = 2
        THEN [ok |-> TRUE, provider_type |-> parts[1], path |-> parts[2]]
        ELSE [ok |-> FALSE, provider_type |-> <<>>, path |-> <<>>]

\* provider_type, path = tuple(override_loc.split("://")): the unpacking
\* raises ValueError unless the split yields exactly two parts.
SplitUnpack(override_loc) ==
    LET parts == Split(override_loc)
    IN  IF Len(parts) = 2
        THEN [ok |-> TRUE, provider_type |-> parts[1], path |-> parts[2]]
        ELSE [ok |-> FALSE, provider_type |-> <<>>, path |-> <<>>]

----------------------------------------------------------------------------
(* Plugins *)

PluginNames == {"foo", "bar"}

\* Plugin.config_schema: None, or a marshmallow schema over the field k.
NoSchema == "None"
Schemas == {"KInt", "KStr", "KOptInt"}

Plugin(name, schema) == [name |-> name, config_schema |-> schema]

\* plugin.config_schema.load(raw): validate and construct.  ok = FALSE
\* stands for marshmallow's ValidationError.
SchemaLoad(schema, raw) ==
    LET has == "k" \in DOMAIN raw
    IN  CASE schema = "KInt" ->
               IF has /\ raw.k.type = "int"
               THEN [ok |-> TRUE, val |-> [k |-> raw.k]]
               ELSE [ok |-> FALSE, val |-> EmptyDict]
          [] schema = "KStr" ->
               IF has /\ raw.k.type = "str"
               THEN [ok |-> TRUE, val |-> [k |-> raw.k]]
               ELSE [ok |-> FALSE, val |-> EmptyDict]
          [] OTHER ->
               IF ~has THEN [ok |-> TRUE, val |-> EmptyDict]
               ELSE IF raw.k.type = "int"
                    THEN [ok |-> TRUE, val |-> [k |-> raw.k]]
                    ELSE [ok |-> FALSE, val |-> EmptyDict]

----------------------------------------------------------------------------
(* The root configuration document and Config *)

NoMap == NoneOf(EmptyDict)
NoKeys == NoneOf({})
NoProvider == NoneOf("")

\* plugins_config section: absent, or a mapping plugin name -> raw mapping
PluginsConfigSections ==
    {NoMap, Some(EmptyDict), Some([n \in {"bar"} |-> EmptyDict])}
    \cup {Some([n \in {"foo"} |-> d]) : d \in RawDocs}

\* plugins_config_location section: absent, or plugin name -> override URI
PluginsConfigLocationSections ==
    {NoMap} \cup {Some([n \in {"foo"} |-> u]) : u \in OverrideURIs}

\* storage_providers section: absent, or the set of its keys (the values
\* are opaque constructor arguments)
StorageProvidersSections == {NoKeys, Some({}), Some({S3}), Some({Ftp})}

\* encryption_provider section: absent, or its provider type name
EncryptionProviderSections == {NoProvider, Some("azure"), Some("gcp")}

Documents ==
    [logging_config : {"absent", "valid", "invalid"},
     plugins_config : PluginsConfigSections,
     plugins_config_location : PluginsConfigLocationSections,
     storage_providers : StorageProvidersSections,
     encryption_provider : EncryptionProviderSections]

\* What open(config_path) and yaml.safe_load find at the path.
BlankDoc == [logging_config |-> "absent", plugins_config |-> NoMap,
             plugins_config_location |-> NoMap, storage_providers |-> NoKeys,
             encryption_provider |-> NoProvider]
ConfigFiles ==
    {[kind |-> "unreadable", doc |-> BlankDoc],
     [kind |-> "badyaml", doc |-> BlankDoc]}
    \cup {[kind |-> "doc", doc |-> d] : d \in Documents}

\* Config.__init__: absent sections take the parameter defaults, None for
\* plugins_config, storage_providers, encryption_provider and {} for
\* plugins_config_location.
Config(doc) ==
    [logging_config |-> doc.logging_config,
     plugins_config |-> doc.plugins_config,
     plugins_config_location |->
         IF doc.plugins_config_location.isNone THEN EmptyDict
         ELSE doc.plugins_config_location.v,
     storage_providers |-> doc.storage_providers,
     encryption_provider |-> doc.encryption_provider]

NoConfig == NoneOf(Config(BlankDoc))

\* load(config_path): returns [cfg, err, msg, logging] where err names the
\* except-branch that ran, msg what was printed, and logging whether
\* dictConfig was applied.
Load(file) ==
    IF file.kind = "unreadable"
    THEN [cfg |-> NoConfig, err |-> "OSError",
          msg |-> "Error opening config file", logging |-> FALSE]
    ELSE IF file.kind = "badyaml"
    THEN [cfg |-> NoConfig, err |-> "YAMLError",
          msg |-> "Error in config file", logging |-> FALSE]
    ELSE IF file.doc.logging_config = "absent"
    THEN [cfg |-> NoConfig, err |-> "ValidationError",
          msg |-> "Error validating config", logging |-> FALSE]
    ELSE IF file.doc.logging_config = "invalid"
    THEN [cfg |-> NoConfig, err |-> "ValueError",
          msg |-> "Unable to load logging config", logging |-> FALSE]
    ELSE [cfg |-> Some(Config(file.doc)), err |-> "",
          msg |-> "", logging |-> TRUE]

----------------------------------------------------------------------------
(* Storage providers *)

\* storage.PROVIDERS_MAP: the registered storage backends
STORAGE_PROVIDERS_MAP == {S3}

\* What a storage backend holds at a path: nothing, bytes that are not
\* UTF-8, text that is not YAML, or a YAML mapping.
MissingBlob == [kind |-> "missing", doc |-> EmptyDict]
Blobs ==
    {MissingBlob,
     [kind |-> "badutf8", doc |-> EmptyDict],
     [kind |-> "badyaml", doc |-> EmptyDict]}
    \cup {[kind |-> "doc", doc |-> d] : d \in RawDocs}

Stores == [{FooPath} -> Blobs]

\* storage.make_provider(provider_type, **kwargs)
StorageMakeProvider(provider_type) ==
    IF provider_type \in STORAGE_PROVIDERS_MAP
    THEN [ret |-> "provider", exc |-> ""]
    ELSE [ret |-> "raise", exc |-> "ValueError"]

\* Config.get_storage(provider)
GetStorage(cfg, provider) ==
    IF cfg.storage_providers.isNone
    THEN \* "provider not in None"
         [ret |-> "raise", exc |-> "TypeError", site |-> "get_storage",
          log |-> <<>>, made |-> 0]
    ELSE IF provider \notin cfg.storage_providers.v
    THEN [ret |-> "None", exc |-> "", site |-> "",
          log |-> <<"ERROR no configuration for storage provider">>,
          made |-> 0]
    ELSE LET m == StorageMakeProvider(provider)
         IN  [ret |-> m.ret, exc |-> m.exc,
              site |-> IF m.ret = "raise" THEN "storage.make_provider" ELSE "",
              log |-> <<>>, made |-> 1]

----------------------------------------------------------------------------
(* load_plugin_config *)

\* The result of a resolution together with what it did on the way.
NoEffect ==
    [ret |-> "None", val |-> EmptyDict, exc |-> "", site |-> "",
     log |-> <<>>, get_storage_calls |-> 0, make_provider_calls |-> 0,
     retrieve_calls |-> 0, inline_reads |-> 0,
     retrieved |-> NoneOf(EmptyDict), validated |-> NoneOf(EmptyDict)]

Raise(e, exc, site) == [e EXCEPT !.ret = "raise", !.exc = exc, !.site = site]

\* provider.retrieve(path, config_file), decode("utf-8"), yaml.safe_load
Retrieve(store, path) ==
    IF path \in DOMAIN store THEN store[path] ELSE MissingBlob

\* _handle_config_file_override(override_loc, plugin, cfg)
HandleConfigFileOverride(override_loc, cfg, store) ==
    LET u == SplitUnpack(override_loc)
    IN  IF ~u.ok THEN Raise(NoEffect, "ValueError", "unpack")
        ELSE
        LET gs == GetStorage(cfg, u.provider_type)
            e1 == [NoEffect EXCEPT !.get_storage_calls = 1,
                                   !.make_provider_calls = gs.made,
                                   !.log = gs.log]
        IN  IF gs.ret = "raise" THEN Raise(e1, gs.exc, gs.site)
            ELSE IF gs.ret = "None"
            THEN \* None has no attribute retrieve
                 Raise(e1, "AttributeError", "provider.retrieve")
            ELSE
            LET blob == Retrieve(store, u.path)
                e2 == [e1 EXCEPT !.retrieve_calls = 1]
            IN  CASE blob.kind = "missing" ->
                       Raise(e2, "StorageError", "retrieve")
                  [] blob.kind = "badutf8" ->
                       Raise(e2, "UnicodeDecodeError", "decode")
                  [] blob.kind = "badyaml" ->
                       Raise(e2, "YAMLError", "safe_load")
                  [] OTHER ->
                       [e2 EXCEPT !.ret = "value", !.val = blob.doc,
                                  !.retrieved = Some(blob.doc)]

\* The source chosen the other way round: the inline section first.
ConfigSource_InlineFirst(name, cfg) ==
    IF ~cfg.plugins_config.isNone /\ name \in DOMAIN cfg.plugins_config.v
    THEN "inline"
    ELSE IF name \in DOMAIN cfg.plugins_config_location THEN "override"
    ELSE IF cfg.plugins_config.isNone THEN "TypeError"
    ELSE "none"

\* The if / elif / else of load_plugin_config that chooses where the raw
\* configuration comes from.  "name in None" raises TypeError.
ConfigSource(name, cfg) ==
    IF name \in DOMAIN cfg.plugins_config_location THEN "override"
    ELSE IF cfg.plugins_config.isNone THEN "TypeError"
    ELSE IF name \in DOMAIN cfg.plugins_config.v THEN "inline"
    ELSE "none"

\* plugin.config_schema.load(raw_config) inside try / except ValidationError
Validate(e, schema, raw) ==
    LET r == SchemaLoad(schema, raw)
        e1 == [e EXCEPT !.validated = Some(raw)]
    IN  IF r.ok THEN [e1 EXCEPT !.ret = "value", !.val = r.val]
        ELSE [e1 EXCEPT !.ret = "None", !.val = EmptyDict,
                        !.log = Append(e.log, "PRINT Error validating config")]

\* load_plugin_config(plugin, cfg); cfg is optional
LoadPluginConfig(plugin, cfg, store) ==
    IF cfg.isNone
    THEN [NoEffect EXCEPT !.log = <<"WARNING victoria config not loaded">>]
    ELSE IF plugin.config_schema = NoSchema
    THEN Raise(NoEffect, "ValueError", "no_schema")
    ELSE
    LET src == ConfigSource(plugin.name, cfg.v)
    IN  CASE src = "override" ->
               LET h == HandleConfigFileOverride(
                            cfg.v.plugins_config_location[plugin.name],
                            cfg.v, store)
               IN  IF h.ret = "raise" THEN h
                   ELSE Validate(h, plugin.config_schema, h.val)
          [] src = "TypeError" ->
               Raise(NoEffect, "TypeError", "plugins_config")
          [] src = "inline" ->
               IF ~Truthy(cfg.v.plugins_config.v)
               THEN [NoEffect EXCEPT !.log =
                        <<"ERROR config did not have plugins_config section">>]
               ELSE Validate([NoEffect EXCEPT !.inline_reads = 1],
                             plugin.config_schema,
                             cfg.v.plugins_config.v[plugin.name])
          [] OTHER ->
               [NoEffect EXCEPT !.log =
                   <<"ERROR config did not have section for plugin">>]

----------------------------------------------------------------------------
(* Encryption providers *)

\* encryption.PROVIDERS_MAP
PROVIDERS_MAP == {"azure"}

\* What the selected backend's constructor does with the arguments.
CtorOutcomes == {"ok", "KeyError", "TypeError", "ClientError"}

NoEnc == [op |-> "", provider_type |-> "", ctor |-> "ok", ret |-> "None",
          exc |-> "", msg |-> "", ctor_calls |-> 0, log |-> <<>>]

\* A factory that falls back to a default backend for unknown names.
MakeProvider_Default(provider_type, ctor) ==
    IF ctor = "ok"
    THEN [NoEnc EXCEPT !.ret = "provider", !.ctor_calls = 1]
    ELSE [NoEnc EXCEPT !.ret = "raise", !.exc = ctor, !.ctor_calls = 1]

\* encryption.make_provider(provider_type, **kwargs): the lookup and the
\* constructor call share one try / except KeyError.
MakeProvider(provider_type, ctor) ==
    IF provider_type \notin PROVIDERS_MAP
    THEN [NoEnc EXCEPT !.ret = "raise", !.exc = "ValueError",
                       !.msg = "Invalid encryption provider_type"]
    ELSE IF ctor = "ok"
    THEN [NoEnc EXCEPT !.ret = "provider", !.ctor_calls = 1]
    ELSE IF ctor = "KeyError"
    THEN [NoEnc EXCEPT !.ret = "raise", !.exc = "ValueError",
                       !.msg = "Invalid encryption provider_type",
                       !.ctor_calls = 1]
    ELSE [NoEnc EXCEPT !.ret = "raise", !.exc = ctor, !.ctor_calls = 1]

\* Config.get_encryption()
GetEncryption(cfg, ctor) ==
    IF cfg.encryption_provider.isNone
    THEN \* None has no attribute provider
         [NoEnc EXCEPT !.ret = "raise", !.exc = "AttributeError"]
    ELSE IF cfg.encryption_provider.v \notin PROVIDERS_MAP
    THEN [NoEnc EXCEPT !.ret = "None",
                       !.log = <<"ERROR encryption provider not valid">>]
    ELSE MakeProvider(cfg.encryption_provider.v, ctor)

----------------------------------------------------------------------------
(* The process *)

CommandNames == PluginNames
ProviderTypeNames == {"azure", "gcp", ""}

NoCall == [called |-> FALSE, plugin |-> Plugin("", NoSchema),
           cfg |-> NoConfig, e |-> NoEffect]
Call(plugin, cfg, e) == [called |-> TRUE, plugin |-> plugin, cfg |-> cfg,
                         e |-> e]

\* VictoriaCLI.__init__ has discovered the plugins; nothing is loaded yet.
Init ==
    /\ pc = "start"
    /\ plugins \in [{"foo"} -> Schemas \cup {NoSchema}]
    /\ ctx_obj = NoConfig
    /\ load_err = ""
    /\ logging_initialized = FALSE
    /\ stdout = <<>>
    /\ out = NoCall
    /\ returned = "unset"
    /\ context_settings = NoneOf(EmptyDict)
    /\ exit_status = -1
    /\ enc = NoEnc

\* main(): cfg = config.load(parsed_args.config_file); cli.main(obj=cfg)
MainLoad ==
    /\ pc = "start"
    /\ \E file \in ConfigFiles :
         LET r == Load(file)
         IN  /\ ctx_obj' = r.cfg
             /\ load_err' = r.err
             /\ logging_initialized' = r.logging
             /\ stdout' = IF r.msg = "" THEN stdout ELSE Append(stdout, r.msg)
    /\ pc' = "loaded"
    /\ UNCHANGED <<plugins, out, returned, context_settings, exit_status, enc>>

\* VictoriaCLI.get_command(ctx, name).  SystemExit(1) and an exception that
\* nothing catches both end the process with status 1.
GetCommand ==
    /\ pc = "loaded"
    /\ \E name \in CommandNames, store \in Stores :
         IF name \notin DOMAIN plugins
         THEN /\ returned' = "None"
              /\ pc' = "no_command"
              /\ UNCHANGED <<out, context_settings, exit_status>>
         ELSE
         LET plgn == Plugin(name, plugins[name])
         IN  IF plgn.config_schema # NoSchema /\ ~ctx_obj.isNone
             THEN LET e == LoadPluginConfig(plgn, ctx_obj, store)
                  IN  /\ out' = Call(plgn, ctx_obj, e)
                      /\ IF e.ret = "raise"
                         THEN /\ exit_status' = 1
                              /\ pc' = "crashed"
                              /\ UNCHANGED <<returned, context_settings>>
                         ELSE IF e.ret = "None" \/ ~Truthy(e.val)
                         THEN /\ exit_status' = 1
                              /\ pc' = "exited"
                              /\ UNCHANGED <<returned, context_settings>>
                         ELSE /\ context_settings' = Some(e.val)
                              /\ returned' = "cmd"
                              /\ pc' = "dispatch"
                              /\ UNCHANGED exit_status
             ELSE /\ returned' = "cmd"
                  /\ pc' = "dispatch"
                  /\ UNCHANGED <<out, context_settings, exit_status>>
    /\ UNCHANGED <<plugins, ctx_obj, load_err, logging_initialized, stdout,
                   enc>>

\* click invokes the command get_command returned.
InvokeCommand ==
    /\ pc = "dispatch"
    /\ returned = "cmd"
    /\ pc' = "running"
    /\ UNCHANGED <<plugins, ctx_obj, load_err, logging_initialized, stdout,
                   out, returned, context_settings, exit_status, enc>>

\* A direct call of config.load_plugin_config(plugin, cfg).
LoadPluginConfigCall ==
    /\ pc = "loaded"
    /\ \E name \in PluginNames, schema \in Schemas \cup {NoSchema},
          store \in Stores :
         LET plgn == Plugin(name, schema)
         IN  out' = Call(plgn, ctx_obj, LoadPluginConfig(plgn, ctx_obj, store))
    /\ pc' = "called"
    /\ UNCHANGED <<plugins, ctx_obj, load_err, logging_initialized, stdout,
                   returned, context_settings, exit_status, enc>>

\* A call of cfg.get_encryption() on the loaded Config.
GetEncryptionCall ==
    /\ pc = "loaded"
    /\ ~ctx_obj.isNone
    /\ \E ctor \in CtorOutcomes :
         enc' = [GetEncryption(ctx_obj.v, ctor) EXCEPT
                    !.op = "get_encryption",
                    !.provider_type =
                        IF ctx_obj.v.encryption_provider.isNone THEN ""
                        ELSE ctx_obj.v.encryption_provider.v,
                    !.ctor = ctor]
    /\ pc' = "called"
    /\ UNCHANGED <<plugins, ctx_obj, load_err, logging_initialized, stdout,
                   out, returned, context_settings, exit_status>>

\* A direct call of encryption.make_provider(provider_type, **kwargs).
MakeProviderCall ==
    /\ pc = "loaded"
    /\ \E provider_type \in ProviderTypeNames, ctor \in CtorOutcomes :
         enc' = [MakeProvider(provider_type, ctor) EXCEPT
                    !.op = "make_provider",
                    !.provider_type = provider_type,
                    !.ctor = ctor]
    /\ pc' = "called"
    /\ UNCHANGED <<plugins, ctx_obj, load_err, logging_initialized, stdout,
                   out, returned, context_settings, exit_status>>

Next ==
    \/ MainLoad
    \/ GetCommand
    \/ InvokeCommand
    \/ LoadPluginConfigCall
    \/ GetEncryptionCall
    \/ MakeProviderCall

Spec == Init /\ [][Next]_vars

----------------------------------------------------------------------------
(* Properties *)

\* get_command has run for a plugin it found ("foo" is the installed one).
GotCommandPcs == {"dispatch", "running", "exited", "crashed"}
Found == pc \in GotCommandPcs
Terminated == exit_status # -1

\* The last load_plugin_config call was for a plugin with a schema and a
\* loaded Config.
Resolving == out.called /\ out.plugin.config_schema # NoSchema
             /\ ~out.cfg.isNone

HasOverride == out.plugin.name \in DOMAIN out.cfg.v.plugins_config_location
HasInline == /\ ~out.cfg.v.plugins_config.isNone
             /\ out.plugin.name \in DOMAIN out.cfg.v.plugins_config.v
OverrideLoc == out.cfg.v.plugins_config_location[out.plugin.name]

\* The string contains "://" somewhere.
HasSeparator(str) ==
    \E i \in 1..(Len(str) - Len(Sep) + 1) :
        SubSeq(str, i, i + Len(Sep) - 1) = Sep

InLog(msg) == \E i \in 1..Len(out.e.log) : out.e.log[i] = msg

\* C1: a found plugin that declares a config_schema is handed back only
\* with a validated configuration injected into its context; in every other
\* outcome the process ends with a non-zero status and no command is
\* returned.
C1_Claim ==
    (Found /\ plugins["foo"] # NoSchema) =>
        IF returned = "cmd"
        THEN /\ out.called
             /\ out.e.ret = "value"
             /\ context_settings = Some(out.e.val)
        ELSE Terminated /\ exit_status # 0

\* C2: when the plugin's name is a key of both plugins_config_location and
\* plugins_config, the inline section is never read and whatever is
\* validated is the document retrieved from the storage provider.
C2_OverrideWins ==
    (Resolving /\ HasOverride /\ HasInline) =>
        /\ out.e.inline_reads = 0
        /\ ~out.e.validated.isNone =>
              /\ out.e.retrieve_calls = 1
              /\ ~out.e.retrieved.isNone
              /\ out.e.validated.v = out.e.retrieved.v

C2_Witness ==
    /\ Resolving /\ HasOverride /\ HasInline
    /\ out.e.ret = "value"
    /\ ~out.e.validated.isNone
    /\ out.e.validated.v # out.cfg.v.plugins_config.v[out.plugin.name]

\* C3: when the plugin's name is in neither plugins_config_location nor
\* plugins_config (a missing section included), load_plugin_config logs
\* the error, returns None, touches no storage and changes nothing.
C3_Claim ==
    (Resolving /\ ~HasOverride /\ ~HasInline) =>
        /\ out.e.ret = "None"
        /\ InLog("ERROR config did not have section for plugin")
        /\ out.e.get_storage_calls = 0
        /\ out.e.make_provider_calls = 0
        /\ out.e.retrieve_calls = 0
        /\ ctx_obj = out.cfg

\* C4: when the override names a storage provider that is not configured
\* (key missing or no storage_providers section), resolution fails with
\* the unknown-storage-provider error and retrieve is never invoked.
C4_Claim ==
    (/\ Resolving /\ HasOverride
     /\ SplitUnpack(OverrideLoc).ok
     /\ \/ out.cfg.v.storage_providers.isNone
        \/ SplitUnpack(OverrideLoc).provider_type
               \notin out.cfg.v.storage_providers.v) =>
        /\ out.e.ret # "value"
        /\ InLog("ERROR no configuration for storage provider")
        /\ out.e.retrieve_calls = 0

\* C5: when the override string has no "://", resolution fails while
\* parsing the string, before get_storage or retrieve is called.
C5_MalformedBeforeStorage ==
    (Resolving /\ HasOverride /\ ~HasSeparator(OverrideLoc)) =>
        /\ out.e.ret = "raise"
        /\ out.e.exc = "ValueError"
        /\ out.e.site = "unpack"
        /\ out.e.get_storage_calls = 0
        /\ out.e.make_provider_calls = 0
        /\ out.e.retrieve_calls = 0

C5_Witness ==
    /\ Resolving /\ HasOverride /\ ~HasSeparator(OverrideLoc)
    /\ out.e.ret = "raise"
    /\ Len(OverrideLoc) > 0

\* C6: when the config path cannot be read, load prints a message and
\* returns None, logging is never initialized, and the process exits with
\* status 1 without dispatching a plugin.
C6_Claim ==
    (load_err = "OSError") =>
        /\ ctx_obj.isNone
        /\ stdout = <<"Error opening config file">>
        /\ ~logging_initialized
        /\ returned # "cmd"
        /\ pc # "running"
        /\ Found => exit_status = 1

\* C7: make_provider for a type name that is not registered raises the
\* invalid-provider-type ValueError and calls no constructor.
C7_UnknownTypeNoConstruction ==
    (enc.op = "make_provider" /\ enc.provider_type \notin PROVIDERS_MAP) =>
        /\ enc.ret = "raise"
        /\ enc.exc = "ValueError"
        /\ enc.msg = "Invalid encryption provider_type"
        /\ enc.ctor_calls = 0

C7_Witness ==
    /\ enc.op = "make_provider"
    /\ enc.provider_type = "gcp"
    /\ enc.ret = "raise"

\* C8: the only failures that leave load_plugin_config as an exception are
\* those of the storage provider's retrieve call and of decoding or parsing
\* the retrieved document; every other failure becomes a None result.
C8_Claim ==
    (out.called /\ out.e.ret = "raise") =>
        out.e.site \in {"retrieve", "decode", "safe_load"}

\* C9: whenever load_plugin_config succeeds for the found plugin, whatever
\* the value of the configuration object, get_command injects that object
\* and returns the command; it exits with status 1 only when resolution
\* failed.
C9_Claim ==
    (Found /\ out.called) =>
        /\ out.e.ret = "value" =>
              (returned = "cmd" /\ context_settings = Some(out.e.val))
        /\ exit_status = 1 => out.e.ret # "value"

\* C10: for a registered type name, a failure of the backend's constructor
\* leaves make_provider as that failure and is never reported as an invalid
\* provider type.
C10_Claim ==
    (/\ enc.op = "make_provider"
     /\ enc.provider_type \in PROVIDERS_MAP
     /\ enc.ctor # "ok") =>
        /\ enc.ret = "raise"
        /\ enc.exc = enc.ctor
        /\ enc.msg # "Invalid encryption provider_type"

====
